---- MODULE Spec2Model ----
(***************************************************************************)
(* A model of gmail/message.py: the Message object with its lazy           *)
(* attribute interception (__getattribute__ / _fetch / parse), the flag    *)
(* and label mutations, delete / move_to / archive, and the pure parsers   *)
(* parse_flags and parse_labels.                                           *)
(*                                                                         *)
(* Python values are tagged records: [t |-> "None"], [t |-> "str", v],     *)
(* [t |-> "bytes", v], [t |-> "list", v], ... so that truthiness and the   *)
(* str / bytes distinction of Python 3 are part of the model.              *)
(* A call of a method is one action.  Inside an action the code runs as a  *)
(* chain of operators over a record                                        *)
(*     st = [self, srv, log, err, failAt, parsed]                          *)
(* (the object's attributes, the server, the commands issued so far by     *)
(* this call, the exception being propagated, the index of the command     *)
(* that the Mail Session rejects, 0 for none, and the last response that   *)
(* parse ran through).                                                     *)
(***************************************************************************)
EXTENDS Integers, Sequences, FiniteSets, TLC

VARIABLES
    msg,      \* the Message object's attributes (its __dict__)
    srv,      \* the Mail Session's view of this uid: flags, labels, raw, boxes
    pre,      \* msg as it was when the last call started
    preSrv,   \* srv as it was when the last call started
    call,     \* the last call: [op, arg]
    log,      \* the remote commands the last call issued, in order
    out,      \* how the last call ended: "ok" or the name of the exception
    ret,      \* what the last call returned (None when it raised)
    pc,       \* the caller: "returned" from the last call, or "ready" for the next
    calls,    \* how many calls have been made on the Message
    parsed,   \* <<results[0]>> of the last FETCH that parse ran through, or <<>>
    clean,    \* every call so far set or cleared a flag or label and returned
    io        \* a call of a pure function: [fn, arg, stage, res]

vars == <<msg, srv, pre, preSrv, call, log, out, ret, pc, calls, parsed, clean, io>>

(***************************************************************************)
(* Bounds of the model.                                                    *)
(***************************************************************************)
\* the deepest Python frame, counted from the frame of the call made on the
\* Message, in which email.message_from_bytes still runs to its end: the
\* interpreter's default recursion limit of 1000 less the frames of the
\* calling program and of the email parser
MaxDepth == 984
\* the largest index of a remote command of one call that may be rejected
MaxFail == 5
\* the number of calls made on one Message
MaxCalls == 3

(***************************************************************************)
(* Python values.                                                          *)
(***************************************************************************)
None == [t |-> "None"]
Str(s) == [t |-> "str", v |-> s]
Bytes(s) == [t |-> "bytes", v |-> s]
List(l) == [t |-> "list", v |-> l]
Dict(d) == [t |-> "dict", v |-> d]
Bool(b) == [t |-> "bool", v |-> b]
Obj(k) == [t |-> "obj", v |-> k]
Email(id) == [t |-> "email", v |-> id]

\* the flag literals of the mutation methods (message.py lines 140..192)
Seen == "\\Seen"
Flagged == "\\Flagged"
Deleted == "\\Deleted"
Draft == "\\Draft"
\* the order in which the server lists flags in a FETCH response
FlagOrder == <<Seen, Flagged, Deleted>>
Flags == {FlagOrder[i] : i \in 1..Len(FlagOrder)}

TrashNames == {"[Gmail]/Bin", "[Gmail]/Trash"}

\* label names are character strings, kept as sequences of characters
La == <<"a">>
Lab == <<"a", " ", "b">>
Lc == <<"c">>
LabelOrder == <<La, Lab, Lc>>
LabelNames == {LabelOrder[i] : i \in 1..Len(LabelOrder)}

(***************************************************************************)
(* The raw messages a server may hold for the uid (BODY.PEEK[]).           *)
(* hdrs: header name -> value; maintype: of the top-level Content-Type;    *)
(* payload: the str payload of a non-multipart message; parts: the         *)
(* sub-parts of a multipart one; thrid / msgid: the digits after the       *)
(* X-GM-THRID / X-GM-MSGID markers of the response ("" when absent).       *)
(* A part: [ctype, disp (has a Content-Disposition header), fname,         *)
(* data (decoded payload, as a name), len (its length in bytes),           *)
(* parts (sub-parts of a nested multipart)].                               *)
(***************************************************************************)
Part(ctype, disp, fname, data, len) ==
    [ctype |-> ctype, disp |-> disp, fname |-> fname, data |-> data,
     len |-> len, parts |-> <<>>]

\* the message Message.create returned, as the server holds it once it was
\* sent (serialised and read back, a part keeps its headers and its
\* decoded payload)
Composed == io.res[1].v

FullHdrs == {<<"to", "a@b">>, <<"from", "c@d">>, <<"subject", "hi">>,
             <<"date", "Mon, 1 Jan 2018 10:00:00 +0000">>}

\* the same with a display name in the From header
NamedHdrs == {<<"to", "a@b">>, <<"from", "C <c@d>">>, <<"subject", "hi">>,
              <<"date", "Mon, 1 Jan 2018 10:00:00 +0000">>}

MultiHdrs == FullHdrs \cup {<<"content-type", "multipart/mixed; boundary=B">>}

RawOf(id) ==
    CASE id = "plain" ->
           [hdrs |-> FullHdrs, maintype |-> "text", payload |-> "body text",
            parts |-> <<>>, thrid |-> "11", msgid |-> "22"]
      [] id = "empty" ->
           [hdrs |-> NamedHdrs, maintype |-> "text", payload |-> "",
            parts |-> <<>>, thrid |-> "", msgid |-> ""]
      [] id = "multi" ->
           [hdrs |-> MultiHdrs, maintype |-> "multipart", payload |-> "",
            parts |-> <<Part("text/plain", FALSE, "", "txt", 3),
                        Part("text/html", FALSE, "", "<p>", 3),
                        Part("application/pdf", TRUE, "f.pdf", "PDF", 2000)>>,
            thrid |-> "11", msgid |-> "22"]
      [] id = "attsmall" ->
           [hdrs |-> MultiHdrs, maintype |-> "multipart", payload |-> "",
            parts |-> <<Part("application/pdf", TRUE, "s.pdf", "pdf", 400)>>,
            thrid |-> "11", msgid |-> "22"]
      [] id = "nohdr" ->
           [hdrs |-> {}, maintype |-> "text", payload |-> "body only",
            parts |-> <<>>, thrid |-> "11", msgid |-> "22"]
      [] id = "nodate" ->
           [hdrs |-> {<<"to", "a@b">>, <<"subject", "hi">>},
            maintype |-> "text", payload |-> "body",
            parts |-> <<>>, thrid |-> "11", msgid |-> "22"]
      [] id = "composed" -> Composed
      [] id = "nosubject" ->
           [hdrs |-> {<<"to", "a@b">>,
                      <<"date", "Mon, 1 Jan 2018 10:00:00 +0000">>},
            maintype |-> "text", payload |-> "body",
            parts |-> <<>>, thrid |-> "11", msgid |-> "22"]

RawIds == {"plain", "empty", "multi", "attsmall", "nohdr", "nodate", "nosubject"}

\* str.lower() of the header names that are looked up
LowerName(name) ==
    CASE name = "To" -> "to"
      [] name = "From" -> "from"
      [] name = "Subject" -> "subject"
      [] name = "Date" -> "date"
      [] OTHER -> name

\* email.message.Message.__getitem__: the value of the header of that name,
\* whatever its case, or None
Header(raw, name) ==
    IF \E h \in raw.hdrs : LowerName(h[1]) = name
    THEN Str((CHOOSE h \in raw.hdrs : LowerName(h[1]) = name)[2])
    ELSE None

(***************************************************************************)
(* Truthiness (bool(x)) of a Python value.  An email.message.Message has   *)
(* __len__ (its number of headers) and no __bool__, so one without headers *)
(* is falsy.                                                               *)
(***************************************************************************)
Truthy(x) ==
    CASE x.t = "None" -> FALSE
      [] x.t = "str" -> x.v # ""
      [] x.t = "bytes" -> x.v # ""
      [] x.t = "list" -> Len(x.v) > 0
      [] x.t = "dict" -> x.v # {}
      [] x.t = "bool" -> x.v
      [] x.t = "email" -> RawOf(x.v).hdrs # {}
      [] OTHER -> TRUE

(***************************************************************************)
(* The pure parsers (message.py lines 330..354) and the Attachment class.  *)
(* The header block of a FETCH response entry is kept as the pieces the    *)
(* regular expressions look at:                                            *)
(*   [flags: the tokens inside FLAGS (...), labelsMarker: whether          *)
(*    "X-GM-LABELS (" occurs, labelsText: the characters after it up to    *)
(*    the end of the marker, thrid, msgid: the digits after X-GM-THRID /   *)
(*    X-GM-MSGID, "" when the marker is absent].                           *)
(***************************************************************************)

\* str.split(sep): every occurrence of sep cuts, empty pieces are kept
RECURSIVE SplitAcc(_, _, _)
SplitAcc(s, sep, cur) ==
    IF s = <<>> THEN <<cur>>
    ELSE IF Head(s) = sep THEN <<cur>> \o SplitAcc(Tail(s), sep, <<>>)
    ELSE SplitAcc(Tail(s), sep, Append(cur, Head(s)))

Split(s, sep) == SplitAcc(s, sep, <<>>)

\* str.replace(ch, ''): every occurrence of ch is dropped
RECURSIVE Remove(_, _)
Remove(s, ch) ==
    IF s = <<>> THEN <<>>
    ELSE IF Head(s) = ch THEN Remove(Tail(s), ch)
    ELSE <<Head(s)>> \o Remove(Tail(s), ch)

\* the group ([^\)]+) of the pattern: the characters before the first ")"
RECURSIVE UpToParen(_)
UpToParen(s) ==
    IF s = <<>> \/ Head(s) = ")" THEN <<>>
    ELSE <<Head(s)>> \o UpToParen(Tail(s))

\* re.search(r'X-GM-LABELS \(([^\)]+)\)', headers): the group, or <<>> when
\* the pattern does not match (no marker, no closing paren, or empty group)
LabelsGroup(headers) ==
    IF headers.labelsMarker
       /\ \E i \in 1..Len(headers.labelsText) : headers.labelsText[i] = ")"
    THEN UpToParen(headers.labelsText)
    ELSE <<>>

parse_labels(headers) ==
    IF LabelsGroup(headers) # <<>>
    THEN LET labels == Split(LabelsGroup(headers), " ")
         IN  [i \in 1..Len(labels) |-> Remove(labels[i], "\"")]
    ELSE <<>>

\* imaplib.ParseFlags on bytes(headers, "ascii"): a tuple of bytes objects
parse_flags(headers) ==
    [i \in 1..Len(headers.flags) |-> Bytes(headers.flags[i])]

parse_headers(raw) == Dict(raw.hdrs)

\* decode_header of a subject without encoded words is one (str, None)
\* chunk; of None it raises TypeError (ecre.search(None))
parse_subject(encoded_subject) ==
    IF encoded_subject.t = "None" THEN [err |-> "TypeError", v |-> None]
    ELSE [err |-> "ok", v |-> encoded_subject]

\* email.utils.parsedate_tz: None for a missing or unparseable header
ValidDates == {"Mon, 1 Jan 2018 10:00:00 +0000"}
parsedate_tz(date) ==
    IF date.t = "str" /\ date.v \in ValidDates THEN Obj("datetime") ELSE None

\* int(round(n / 1000.0)): Python 3 rounds halves to the even neighbour
Kilo == 1000
RoundKilo(n) ==
    LET q == n \div Kilo
        r == n % Kilo
    IN  IF 2 * r < Kilo THEN q
        ELSE IF 2 * r > Kilo THEN q + 1
        ELSE IF q % 2 = 0 THEN q ELSE q + 1

\* Attachment.__init__: get_payload(decode=True) is None for a multipart
\* part, and len(None) raises the TypeError that sets size to 0
Attachment(part) ==
    [name |-> part.fname,
     payload |-> IF part.parts # <<>> THEN None ELSE Bytes(part.data),
     size |-> IF part.parts # <<>> THEN 0 ELSE RoundKilo(part.len)]

\* Attachment.__bool__
AttachmentBool(a) == a.size # 0

\* email.message.Message.walk below the top level: depth first, a part
\* before its sub-parts
RECURSIVE Walk(_)
Walk(parts) ==
    IF parts = <<>> THEN <<>>
    ELSE <<Head(parts)>> \o Walk(Head(parts).parts) \o Walk(Tail(parts))

\* the last part of content type ct in walk order, as the bytes of
\* get_payload(decode=True); cur when there is none
LastOfType(parts, ct, cur) ==
    LET w == Walk(parts)
        I == {i \in 1..Len(w) : w[i].ctype = ct}
    IN  IF I = {} THEN cur
        ELSE Bytes(w[CHOOSE i \in I : \A j \in I : j <= i].data)

RECURSIVE SelectAttachments(_)
SelectAttachments(parts) ==
    IF parts = <<>> THEN <<>>
    ELSE LET p == Head(parts)
             rest == SelectAttachments(Tail(parts))
         IN  IF p.disp /\ AttachmentBool(Attachment(p))
             THEN <<Attachment(p)>> \o rest
             ELSE rest

(***************************************************************************)
(* The Mail Session: gmail.imap.uid, gmail.copy, gmail.labels.             *)
(* A command: [cmd, op, val], val a sequence of strings.                   *)
(***************************************************************************)
Fetch == [cmd |-> "FETCH", op |-> "", val |-> <<>>]
Store(op, val) == [cmd |-> "STORE", op |-> op, val |-> val]
Copy(to, from) == [cmd |-> "COPY", op |-> to, val |-> <<from>>]
ListCmd == [cmd |-> "LIST", op |-> "", val |-> <<>>]

\* what the server does with a command it accepts
Apply(s, c) ==
    IF c.cmd # "STORE" THEN s
    ELSE CASE c.op = "+FLAGS" -> [s EXCEPT !.flags = @ \cup {c.val[1]}]
           [] c.op = "-FLAGS" -> [s EXCEPT !.flags = @ \ {c.val[1]}]
           [] c.op = "+X-GM-LABELS" -> [s EXCEPT !.labels = @ \cup {c.val}]
           [] c.op = "-X-GM-LABELS" -> [s EXCEPT !.labels = @ \ {c.val}]

\* the server writes a label with a space in double quotes
Quoted(l) ==
    IF \E i \in 1..Len(l) : l[i] = " " THEN <<"\"">> \o l \o <<"\"">> ELSE l

RECURSIVE RenderLabels(_, _)
RenderLabels(S, i) ==
    IF i > Len(LabelOrder) THEN <<>>
    ELSE LET rest == RenderLabels(S, i + 1)
         IN  IF LabelOrder[i] \in S
             THEN IF rest = <<>> THEN Quoted(LabelOrder[i])
                  ELSE Quoted(LabelOrder[i]) \o <<" ">> \o rest
             ELSE rest

\* the header block of the FETCH response entry for the uid
HeaderBlock(s) ==
    [flags |-> SelectSeq(FlagOrder, LAMBDA f : f \in s.flags),
     labelsMarker |-> TRUE,
     labelsText |-> RenderLabels(s.labels, 1) \o <<")">>,
     thrid |-> RawOf(s.raw).thrid,
     msgid |-> RawOf(s.raw).msgid]

(***************************************************************************)
(* Running the code of one call.                                           *)
(***************************************************************************)
Start(failAt) ==
    [self |-> msg, srv |-> srv, log |-> <<>>, err |-> "ok", failAt |-> failAt,
     parsed |-> parsed]

Failed(st) == st.err # "ok"

Raise(st, e) == IF Failed(st) THEN st ELSE [st EXCEPT !.err = e]

\* self.<item> = v
SetAttr(st, item, v) ==
    IF Failed(st) THEN st ELSE [st EXCEPT !.self[item] = v]

\* one remote command: it is logged, and either the Mail Session rejects it
\* (an exception, nothing changes on the server) or the server applies it
Issue(st, c) ==
    IF Failed(st) THEN st
    ELSE LET l == Append(st.log, c)
         IN  IF Len(l) = st.failAt
             THEN [st EXCEPT !.log = l, !.err = "ProtocolError"]
             ELSE [st EXCEPT !.log = l, !.srv = Apply(st.srv, c)]

(***************************************************************************)
(* Message.__getattribute__, _fetch and parse.  d counts Python frames.    *)
(* The lookups of the bound methods (self._fetch, self.parse, ...) find    *)
(* truthy objects and return at once: they are left out.  Every step takes *)
(* the state the step before it left and passes an exception on untouched. *)
(* The two chains of calls that end only at the interpreter's recursion    *)
(* limit are given by their outcome: _fetch reading a falsy self.gmail or  *)
(* self.uid (no frame changes anything), and parse reading the falsy       *)
(* message it has just assigned (Refetch).                                 *)
(***************************************************************************)
RECURSIVE getattribute(_, _, _)
RECURSIVE fetch(_, _)
RECURSIVE parse(_, _, _)

\* a lazy read that fetches only a message no parse has completed on
getattribute_loaded_flag(st, item, d) ==
    IF Failed(st) THEN st
    ELSE IF ~Truthy(st.self[item]) /\ st.self.attachments.t = "None"
    THEN fetch(st, d + 1)
    ELSE st

\* lines 65..68; the value read is self[item] of the state returned
getattribute(st, item, d) ==
    IF Failed(st) THEN st
    ELSE IF ~Truthy(st.self[item]) THEN fetch(st, d + 1)
    ELSE st

\* results[0] of the FETCH just answered: (header block, raw message)
Results(st) == [headers |-> HeaderBlock(st.srv), raw |-> st.srv.raw]

\* parse returned: r is the response the fields now come from
Loaded(st, r) == IF Failed(st) THEN st ELSE [st EXCEPT !.parsed = <<r>>]

\* line 259: self.parse(results[0])
ParseResults(st, d) ==
    IF Failed(st) THEN st ELSE Loaded(parse(st, Results(st), d), Results(st))

\* lines 255..261.  Line 256 reads self.gmail and self.uid: a falsy one makes
\* __getattribute__ call _fetch, which reads it again, and so on until the
\* recursion limit, with no command issued and no field assigned
fetch(st, d) ==
    IF Failed(st) THEN st
    ELSE IF ~Truthy(st.self.gmail) \/ ~Truthy(st.self.uid)
    THEN Raise(st, "RecursionError")
    ELSE ParseResults(Issue(st, Fetch), d + 1)

\* the FETCH commands issued below a parse in frame d that reads a falsy
\* self.message: each read calls _fetch two frames further down, whose parse
\* runs three frames further down, until the Mail Session rejects a FETCH or
\* a parse lies beyond MaxDepth
Rounds(st, d) ==
    IF st.failAt - Len(st.log) >= 1
       /\ st.failAt - Len(st.log) <= (MaxDepth - d) \div 3 + 1
    THEN st.failAt - Len(st.log)
    ELSE (MaxDepth - d) \div 3 + 1

\* lines 214, 65..68, 255..259, 213 over and over: the server answers every
\* FETCH with the same raw message, every parse assigns the same falsy
\* message, and the exception that ends the chain passes through every frame
Refetch(st, d) ==
    IF Failed(st) THEN st
    ELSE IF ~Truthy(st.self.gmail) \/ ~Truthy(st.self.uid)
    THEN Raise(st, "RecursionError")
    ELSE [st EXCEPT !.log = st.log \o [i \in 1..Rounds(st, d) |-> Fetch],
                    !.err = IF Len(st.log) + Rounds(st, d) = st.failAt
                            THEN "ProtocolError" ELSE "RecursionError"]

\* line 214: the read of self.message
ReadMessage(st, d) ==
    IF Failed(st) \/ Truthy(st.self.message) THEN st ELSE Refetch(st, d)

\* lines 213..218; parse_headers(self.message) is the first read of
\* self.message: the later reads find it truthy, or this one did not return
ParseHeaders(st, m, id, d) ==
    SetAttr(SetAttr(SetAttr(SetAttr(
        ReadMessage(SetAttr(st, "message", Email(id)), d),
        "headers", parse_headers(m)),
        "to", Header(m, "to")),
        "fr", Header(m, "from")),
        "delivered_to", Header(m, "delivered_to"))

\* line 220
ParseSubject(st, m) ==
    IF parse_subject(Header(m, "subject")).err # "ok"
    THEN Raise(st, parse_subject(Header(m, "subject")).err)
    ELSE SetAttr(st, "subject", parse_subject(Header(m, "subject")).v)

\* lines 222..229: in a multipart message the last text/plain and the last
\* text/html part of the walk win, and a field without a part keeps its
\* value; a text message's payload is the body
ParseBody(st, m) ==
    IF Failed(st) THEN st
    ELSE IF m.maintype = "multipart"
    THEN SetAttr(SetAttr(st, "body",
                         LastOfType(m.parts, "text/plain", st.self.body)),
                 "html", LastOfType(m.parts, "text/html", st.self.html))
    ELSE IF m.maintype = "text" THEN SetAttr(st, "body", Str(m.payload))
    ELSE st

\* lines 231..232: parsedate_tz(...)[:9] on None raises TypeError
ParseDate(st, m) ==
    IF parsedate_tz(Header(m, "date")).t = "None" THEN Raise(st, "TypeError")
    ELSE SetAttr(st, "sent_at", parsedate_tz(Header(m, "date")))

\* lines 234..236
ParseFlagsLabels(st, raw_headers) ==
    SetAttr(SetAttr(st, "flags", List(parse_flags(raw_headers))),
            "labels", List(parse_labels(raw_headers)))

\* lines 238..240
ParseThreadId(st, raw_headers) ==
    IF raw_headers.thrid # ""
    THEN SetAttr(st, "thread_id", Str(raw_headers.thrid)) ELSE st

\* lines 241..243
ParseMessageId(st, raw_headers) ==
    IF raw_headers.msgid # ""
    THEN SetAttr(st, "message_id", Str(raw_headers.msgid)) ELSE st

\* lines 246..253; self.message._payload of a non-multipart message is a
\* str, whose characters are str and are all filtered out
ParseAttachments(st, m) ==
    SetAttr(st, "attachments",
            List(IF m.maintype = "multipart"
                 THEN SelectAttachments(m.parts) ELSE <<>>))

\* lines 209..253, one assignment after the other; an exception leaves the
\* assignments made before it in place
parse(st, raw_message, d) ==
    IF Failed(st) THEN st
    ELSE IF d > MaxDepth THEN Raise(st, "RecursionError")
    ELSE ParseAttachments(
           ParseMessageId(
             ParseThreadId(
               ParseFlagsLabels(
                 ParseDate(
                   ParseBody(
                     ParseSubject(
                       ParseHeaders(st, RawOf(raw_message.raw), raw_message.raw, d),
                       RawOf(raw_message.raw)),
                     RawOf(raw_message.raw)),
                   RawOf(raw_message.raw)),
                 raw_message.headers),
               raw_message.headers),
             raw_message.headers),
           RawOf(raw_message.raw))

(***************************************************************************)
(* The methods of Message.  A method's own frame is d; the attribute reads *)
(* it makes run in frame d + 1.                                            *)
(***************************************************************************)
\* x in l (== on the elements: a str never equals a bytes)
In(x, l) == \E i \in 1..Len(l) : l[i] = x

\* list.remove(x): the first element equal to x goes
RemoveFirst(l, x) ==
    LET i == CHOOSE k \in 1..Len(l) : l[k] = x /\ \A j \in 1..(k - 1) : l[j] # x
    IN  SubSeq(l, 1, i - 1) \o SubSeq(l, i + 1, Len(l))

\* self.gmail.imap.uid('STORE', self.uid, op, val)
StoreCmd(st, op, val, d) ==
    Issue(getattribute(getattribute(st, "gmail", d + 1), "uid", d + 1),
          Store(op, val))

\* self.<item>.append(x), on the list a second read of the item gives
AppendTo(st, item, x) ==
    IF Failed(st) THEN st ELSE SetAttr(st, item, List(Append(st.self[item].v, x)))

\* self.<item>.remove(x)
RemoveFrom(st, item, x) ==
    IF Failed(st) THEN st ELSE SetAttr(st, item, List(RemoveFirst(st.self[item].v, x)))

\* st is the state after the read of the item in the condition
AppendUnlessIn(st, item, x, d) ==
    IF Failed(st) \/ In(x, st.self[item].v) THEN st
    ELSE AppendTo(getattribute(st, item, d + 1), item, x)

RemoveWhenIn(st, item, x, d) ==
    IF Failed(st) \/ ~In(x, st.self[item].v) THEN st
    ELSE RemoveFrom(getattribute(st, item, d + 1), item, x)

\* if x not in self.<item>: self.<item>.append(x)
AddIfAbsent(st, item, x, d) ==
    AppendUnlessIn(getattribute(st, item, d + 1), item, x, d)

\* if x in self.<item>: self.<item>.remove(x)
RemoveIfPresent(st, item, x, d) ==
    RemoveWhenIn(getattribute(st, item, d + 1), item, x, d)

\* read() updating the local flags before it issues the STORE
read_local_first(st, d) ==
    StoreCmd(AddIfAbsent(st, "flags", Str(Seen), d), "+FLAGS", <<Seen>>, d)

\* lines 139..143
read(st, d) == AddIfAbsent(StoreCmd(st, "+FLAGS", <<Seen>>, d), "flags", Str(Seen), d)
\* lines 145..149
unread(st, d) ==
    RemoveIfPresent(StoreCmd(st, "-FLAGS", <<Seen>>, d), "flags", Str(Seen), d)
\* lines 155..159
star(st, d) ==
    AddIfAbsent(StoreCmd(st, "+FLAGS", <<Flagged>>, d), "flags", Str(Flagged), d)
\* lines 161..165
unstar(st, d) ==
    RemoveIfPresent(StoreCmd(st, "-FLAGS", <<Flagged>>, d), "flags", Str(Flagged), d)
\* lines 175..179; '%s' % label is the label itself
add_label(st, label, d) ==
    AddIfAbsent(StoreCmd(st, "+X-GM-LABELS", label, d), "labels", label, d)
\* lines 181..185
remove_label(st, label, d) ==
    RemoveIfPresent(StoreCmd(st, "-X-GM-LABELS", label, d), "labels", label, d)

\* the value of  x in self.<item>  once the item has been read
Member(st, item, x) ==
    [st |-> st, v |-> IF Failed(st) THEN None ELSE Bool(In(x, st.self[item].v))]

\* __getattribute__ on a property: object.__getattribute__ runs the getter,
\* and when the value it gives is falsy (False) the message is fetched
RefetchIfFalse(st, flag, d) ==
    IF Failed(st) \/ In(Str(flag), st.self.flags.v) THEN st ELSE fetch(st, d + 1)

\* self.is_read, self.is_starred, self.is_draft, self.is_deleted (lines
\* 135..137, 151..153, 167..169, 187..189) read through lines 65..68: the
\* getter  flag in self.flags  runs in line 66 and again in line 68
FlagIn(st, flag, d) ==
    Member(getattribute(RefetchIfFalse(getattribute(st, "flags", d + 2), flag, d),
                        "flags", d + 2),
           "flags", Str(flag))

\* self.fr.split('<')[-1].replace('>', '') for an address in angle brackets
\* (lines 131..132), the address itself otherwise (line 133)
AddrSpec(fr) == IF fr.v = "C <c@d>" THEN Str("c@d") ELSE fr

\* the getter of from_ once self.fr has been read:  '<' in None  raises
FromGetter(st) ==
    [st |-> IF Failed(st) \/ st.self.fr.t # "None" THEN st
            ELSE Raise(st, "TypeError"),
     v |-> IF Failed(st) \/ st.self.fr.t = "None" THEN None
           ELSE AddrSpec(st.self.fr)]

\* strftime('%-m/%-d/%y') of the parsed date
DateString == Str("1/1/18")

\* the getter of string_sent_at once self.sent_at has been read
SentAtGetter(st) ==
    [st |-> IF Failed(st) \/ st.self.sent_at.t # "None" THEN st
            ELSE Raise(st, "AttributeError"),
     v |-> IF Failed(st) \/ st.self.sent_at.t = "None" THEN None
           ELSE DateString]

\* line 66 on the value r.v a getter gave
RefetchIfFalsy(r, d) ==
    IF Failed(r.st) \/ Truthy(r.v) THEN r.st ELSE fetch(r.st, d + 1)

\* self.from_ (lines 129..133) read through lines 65..68
from_(st, d) ==
    FromGetter(getattribute(
        RefetchIfFalsy(FromGetter(getattribute(st, "fr", d + 2)), d),
        "fr", d + 2))

\* self.string_sent_at, self.string_date (lines 263..265, 292) read through
\* lines 65..68
string_sent_at(st, d) ==
    SentAtGetter(getattribute(
        RefetchIfFalsy(SentAtGetter(getattribute(st, "sent_at", d + 2)), d),
        "sent_at", d + 2))

\* has_label testing the list as it was before the lazy read
has_label_stale(st, label, d) ==
    [st |-> getattribute(st, "labels", d + 1),
     v |-> IF Failed(getattribute(st, "labels", d + 1)) THEN None
           ELSE Bool(In(label, st.self.labels.v))]

\* lines 171..173
has_label(st, label, d) == Member(getattribute(st, "labels", d + 1), "labels", label)

\* gmail.labels(): one LIST round trip, answering the account's mailboxes
GmailLabels(st, d) == Issue(getattribute(st, "gmail", d + 1), ListCmd)

CopyFrom(st, name) ==
    IF Failed(st) THEN st ELSE Issue(st, Copy(name, st.self.mailbox.name))

\* gmail.copy(self.uid, name, self.mailbox.name): one COPY round trip
GmailCopy(st, name, d) ==
    CopyFrom(getattribute(getattribute(getattribute(st, "gmail", d + 1),
                                       "uid", d + 1),
                          "mailbox", d + 1),
             name)

RECURSIVE delete(_, _)
RECURSIVE move_to(_, _, _)

\* the trash name taken without looking at the account's mailboxes
TrashAlways(st) == "[Gmail]/Trash"

\* line 197
Trash(st) ==
    IF "[Gmail]/Trash" \in st.srv.boxes THEN "[Gmail]/Trash" ELSE "[Gmail]/Bin"

\* lines 198..199, st the state after the read of self.mailbox
MoveToTrash(st, d) ==
    IF Failed(st) THEN st
    ELSE IF st.self.mailbox.name \notin TrashNames
    THEN move_to(st, Trash(st), d + 1)
    ELSE st

\* delete() that moves the message whatever mailbox it is in
delete_always_move(st, d) ==
    IF Failed(st) THEN st
    ELSE IF d > MaxDepth THEN Raise(st, "RecursionError")
    ELSE move_to(
             getattribute(
                 GmailLabels(
                     AddIfAbsent(StoreCmd(st, "+FLAGS", <<Deleted>>, d),
                                 "flags", Str(Deleted), d),
                     d),
                 "mailbox", d + 1),
             "[Gmail]/Trash", d + 1)

\* lines 191..199
delete(st, d) ==
    IF Failed(st) THEN st
    ELSE IF d > MaxDepth THEN Raise(st, "RecursionError")
    ELSE MoveToTrash(
             getattribute(
                 GmailLabels(
                     AddIfAbsent(StoreCmd(st, "+FLAGS", <<Deleted>>, d),
                                 "flags", Str(Deleted), d),
                     d),
                 "mailbox", d + 1),
             d)

\* move_to deleting the original whatever the target is, given up after a
\* few rounds of delete and move_to
DeleteAlways(st, name, d) ==
    IF Failed(st) THEN st
    ELSE IF d > 9 THEN Raise(st, "RecursionError")
    ELSE delete(st, d + 1)

\* line 203..204, st the state after the copy
DeleteUnlessTrash(st, name, d) ==
    IF Failed(st) THEN st
    ELSE IF name \notin TrashNames THEN delete(st, d + 1)
    ELSE st

\* move_to that deletes the original before it copies it
move_to_delete_first(st, name, d) ==
    IF Failed(st) THEN st
    ELSE IF d > MaxDepth THEN Raise(st, "RecursionError")
    ELSE IF name \notin TrashNames THEN GmailCopy(delete(st, d + 1), name, d)
    ELSE GmailCopy(st, name, d)

\* move_to that makes the Message refer to the mailbox it was copied to
move_to_rebinding(st, name, d) ==
    IF Failed(st) THEN st
    ELSE IF d > MaxDepth THEN Raise(st, "RecursionError")
    ELSE DeleteUnlessTrash(SetAttr(GmailCopy(st, name, d), "mailbox",
                                   [t |-> "Mailbox", name |-> name]),
                           name, d)

\* lines 201..204
move_to(st, name, d) ==
    IF Failed(st) THEN st
    ELSE IF d > MaxDepth THEN Raise(st, "RecursionError")
    ELSE DeleteUnlessTrash(GmailCopy(st, name, d), name, d)

\* lines 206..207
archive(st, d) == move_to(st, "[Gmail]/All Mail", d + 1)

(***************************************************************************)
(* The state machine: a Message is constructed, then its attributes are    *)
(* read and its methods called, one call per step.                         *)
(***************************************************************************)
\* Message.__init__, lines 29..60
NewMessage(mailbox, uid) ==
    [uid |-> uid,
     mailbox |-> mailbox,
     gmail |-> IF Truthy(mailbox) THEN Obj("Gmail") ELSE None,
     message |-> None,
     headers |-> Dict({}),
     subject |-> None, body |-> None, html |-> None,
     to |-> None, fr |-> None, cc |-> None, delivered_to |-> None,
     sent_at |-> None,
     flags |-> List(<<>>), labels |-> List(<<>>),
     thread_id |-> None, thread |-> List(<<>>), message_id |-> None,
     attachments |-> None,
     date |-> None]

Mailbox(name) == [t |-> "Mailbox", name |-> name]

\* the data fields of a Message (lines 40..60)
DataFields ==
    {"headers", "subject", "body", "html", "to", "fr", "cc", "delivered_to",
     "sent_at", "flags", "labels", "thread_id", "thread", "message_id",
     "attachments"}

\* the wrapped email (line 39) and the class attribute date (line 291)
OtherMembers == {"message", "date"}

MailboxNames == {"INBOX", "[Gmail]/Trash", "[Gmail]/Bin"}
MoveTargets == {"[Gmail]/Trash", "Work"}

Server(flags, labels, raw, trash) ==
    [flags |-> flags, labels |-> labels, raw |-> raw, boxes |-> {"INBOX", trash}]

\* no pure function is being called
NoCall == [fn |-> "none", arg |-> <<>>, stage |-> "none", res |-> <<>>]

\* the accounts and messages the runs start from: a well-formed message in
\* INBOX with every choice of server flags, with every choice of server
\* labels, in each kind of mailbox and account; each of the other raw
\* messages; and the two degenerate constructions (no mailbox, falsy uid)
Init ==
    /\ \/ \E F \in SUBSET {Seen, Flagged} :
             /\ srv = Server(F, {}, "plain", "[Gmail]/Trash")
             /\ msg = NewMessage(Mailbox("INBOX"), Bytes("5"))
       \/ \E L \in SUBSET LabelNames :
             /\ srv = Server({}, L, "plain", "[Gmail]/Trash")
             /\ msg = NewMessage(Mailbox("INBOX"), Bytes("5"))
       \/ \E name \in MailboxNames, trash \in TrashNames :
             /\ srv = Server({}, {}, "plain", trash)
             /\ msg = NewMessage(Mailbox(name), Bytes("5"))
       \/ \E raw \in RawIds :
             /\ srv = Server({}, {}, raw, "[Gmail]/Trash")
             /\ msg = NewMessage(Mailbox("INBOX"), Bytes("5"))
       \/ /\ srv = Server({}, {}, "plain", "[Gmail]/Trash")
          /\ \/ msg = NewMessage(None, Bytes("5"))
             \/ msg = NewMessage(Mailbox("INBOX"), Bytes(""))
    /\ pre = msg
    /\ preSrv = srv
    /\ call = [op |-> "__init__", arg |-> <<>>]
    /\ log = <<>>
    /\ out = "ok"
    /\ ret = None
    /\ pc = "returned"
    /\ calls = 0
    /\ parsed = <<>>
    /\ clean = TRUE
    /\ io = NoCall

\* the operations that set or clear one flag or label, and those that move
SimpleMutators == {"read", "unread", "star", "unstar", "add_label", "remove_label"}
MoveMutators == {"delete", "move_to", "archive"}
Mutators == SimpleMutators \cup MoveMutators

\* the call op(arg) ran the code from Start(failAt) to st and returned v
Done(op, arg, st, v) ==
    /\ pc = "ready"
    /\ calls < MaxCalls
    /\ msg' = st.self
    /\ srv' = st.srv
    /\ pre' = msg
    /\ preSrv' = srv
    /\ call' = [op |-> op, arg |-> arg]
    /\ log' = st.log
    /\ out' = st.err
    /\ ret' = IF Failed(st) THEN None ELSE v
    /\ pc' = "returned"
    /\ calls' = calls + 1
    /\ parsed' = st.parsed
    /\ clean' = (clean /\ op \in SimpleMutators /\ st.err = "ok")
    /\ io' = io

\* the caller has looked at the outcome of the last call and goes on
Continue ==
    /\ pc = "returned"
    /\ pc' = "ready"
    /\ pre' = msg
    /\ preSrv' = srv
    /\ call' = [op |-> "none", arg |-> <<>>]
    /\ log' = <<>>
    /\ out' = "ok"
    /\ ret' = None
    /\ UNCHANGED <<msg, srv, calls, parsed, clean, io>>

DoneRead(item, st) == Done("getattr", <<item>>, st, st.self[item])
DoneValue(op, arg, r) == Done(op, arg, r.st, r.v)

\* x = message.<item>
ReadField ==
    \E item \in DataFields \cup OtherMembers, failAt \in 0..MaxFail :
        DoneRead(item, getattribute(Start(failAt), item, 1))

\* message.parse(results[0]) on the entry a FETCH of the uid would answer
Parse ==
    \E failAt \in 0..MaxFail :
        Done("parse", <<>>, ParseResults(Start(failAt), 1), None)

From ==
    \E failAt \in 0..MaxFail :
        DoneValue("from_", <<>>, from_(Start(failAt), 1))
StringSentAt ==
    \E failAt \in 0..MaxFail :
        DoneValue("string_sent_at", <<>>, string_sent_at(Start(failAt), 1))

IsRead ==
    \E failAt \in 0..MaxFail :
        DoneValue("is_read", <<>>, FlagIn(Start(failAt), Seen, 1))
IsStarred ==
    \E failAt \in 0..MaxFail :
        DoneValue("is_starred", <<>>, FlagIn(Start(failAt), Flagged, 1))
IsDraft ==
    \E failAt \in 0..MaxFail :
        DoneValue("is_draft", <<>>, FlagIn(Start(failAt), Draft, 1))
IsDeleted ==
    \E failAt \in 0..MaxFail :
        DoneValue("is_deleted", <<>>, FlagIn(Start(failAt), Deleted, 1))
HasLabel ==
    \E label \in LabelNames, failAt \in 0..MaxFail :
        DoneValue("has_label", label, has_label(Start(failAt), label, 1))

Read == \E failAt \in 0..MaxFail : Done("read", <<>>, read(Start(failAt), 1), None)
Unread == \E failAt \in 0..MaxFail : Done("unread", <<>>, unread(Start(failAt), 1), None)
Star == \E failAt \in 0..MaxFail : Done("star", <<>>, star(Start(failAt), 1), None)
Unstar == \E failAt \in 0..MaxFail : Done("unstar", <<>>, unstar(Start(failAt), 1), None)
AddLabel ==
    \E label \in LabelNames, failAt \in 0..MaxFail :
        Done("add_label", label, add_label(Start(failAt), label, 1), None)
RemoveLabel ==
    \E label \in LabelNames, failAt \in 0..MaxFail :
        Done("remove_label", label, remove_label(Start(failAt), label, 1), None)
Delete == \E failAt \in 0..MaxFail : Done("delete", <<>>, delete(Start(failAt), 1), None)
MoveTo ==
    \E name \in MoveTargets, failAt \in 0..MaxFail :
        Done("move_to", <<name>>, move_to(Start(failAt), name, 1), None)
Archive ==
    \E failAt \in 0..MaxFail : Done("archive", <<>>, archive(Start(failAt), 1), None)

Next ==
    \/ ReadField
    \/ Parse
    \/ From
    \/ StringSentAt
    \/ IsRead
    \/ IsStarred
    \/ IsDraft
    \/ IsDeleted
    \/ HasLabel
    \/ Read
    \/ Unread
    \/ Star
    \/ Unstar
    \/ AddLabel
    \/ RemoveLabel
    \/ Delete
    \/ MoveTo
    \/ Archive
    \/ Continue

Spec == Init /\ [][Next]_vars

(***************************************************************************)
(* The Message Composer (Message.create) and the pure functions, called on *)
(* their own: an input is drawn, the function is applied, and a composed   *)
(* message is read back through Message.parse.                             *)
(***************************************************************************)
MaxAttachments == 2
MaxLabels == 2

\* MIMEText(text, 'plain' / 'html', charset(text)) as a part of a multipart
TextPart(text, ctype) == Part(ctype, FALSE, "", text, 4)

\* MIMEMultipart('alternative') holding the html part, lines 92..93
Alternative(text) ==
    [ctype |-> "multipart/alternative", disp |-> FALSE, fname |-> "",
     data |-> "", len |-> 0, parts |-> <<TextPart(text, "text/html")>>]

\* the payload of MIMEText(text, 'plain', 'utf-8') as get_payload() gives it:
\* the base64 text
Base64(text) == CASE text = "body" -> "Ym9keQ==\n" [] OTHER -> text

\* Message._file_to_mime_attachment, lines 267..286.  A path that opens
\* gets as far as line 284, where  a  is not a name of the scope
file_to_mime_attachment(file) ==
    IF file.kind = "mime" THEN [err |-> "ok", v |-> file.part]
    ELSE IF ~file.exists THEN [err |-> "FileNotFoundError", v |-> file.part]
    ELSE [err |-> "NameError", v |-> file.part]

\* lines 101..102: the parts attached, up to the first exception
RECURSIVE AttachAll(_)
AttachAll(files) ==
    IF files = <<>> THEN [err |-> "ok", v |-> <<>>]
    ELSE IF file_to_mime_attachment(Head(files)).err # "ok"
    THEN [err |-> file_to_mime_attachment(Head(files)).err, v |-> <<>>]
    ELSE [err |-> AttachAll(Tail(files)).err,
          v |-> <<file_to_mime_attachment(Head(files)).v>>
                    \o AttachAll(Tail(files)).v]

\* lines 84..102: the MIME structure before the headers are set
CreateBody(text, is_html, attachments) ==
    IF ~is_html /\ attachments.t = "None"
    THEN [err |-> "ok", maintype |-> "text", payload |-> Base64(text),
          parts |-> <<>>,
          hdrs |-> {<<"Content-Type", "text/plain; charset=\"utf-8\"">>,
                    <<"MIME-Version", "1.0">>,
                    <<"Content-Transfer-Encoding", "base64">>}]
    ELSE [err |-> AttachAll(IF Truthy(attachments) THEN attachments.v ELSE <<>>).err,
          maintype |-> "multipart", payload |-> "",
          parts |-> <<IF is_html THEN Alternative(text)
                      ELSE TextPart(text, "text/plain")>>
                    \o AttachAll(IF Truthy(attachments) THEN attachments.v
                                 ELSE <<>>).v,
          hdrs |-> {<<"Content-Type", "multipart/mixed; boundary=B">>,
                    <<"MIME-Version", "1.0">>}]

\* lines 104..125 with cc, bcc and reply_to left None: To, From and
\* Reply-To (when a sender is given), Date, Message-ID, Subject
CreateHeaders(subject, to, sender) ==
    {<<"To", to>>, <<"Date", "Mon, 1 Jan 2018 10:00:00 +0000">>,
     <<"Message-ID", "<1@host>">>, <<"Subject", subject>>}
    \cup (IF Truthy(sender)
          THEN {<<"From", sender.v>>, <<"Reply-To", sender.v>>} ELSE {})

\* Message.create, lines 71..127: [err, v], v the message returned
create(subject, to, text, is_html, attachments, sender) ==
    [err |-> CreateBody(text, is_html, attachments).err,
     v |-> [hdrs |-> CreateBody(text, is_html, attachments).hdrs
                         \cup CreateHeaders(subject, to, sender),
            maintype |-> CreateBody(text, is_html, attachments).maintype,
            payload |-> CreateBody(text, is_html, attachments).payload,
            parts |-> CreateBody(text, is_html, attachments).parts,
            thrid |-> "11", msgid |-> "22"]]

\* the attachments handed to create: MIME parts built by the caller, with a
\* Content-Disposition: attachment header, and a path of an existing file
MimeFile(fname, data, len) ==
    [kind |-> "mime", exists |-> TRUE,
     part |-> Part("application/pdf", TRUE, fname, data, len)]
PathFile(fname, data, len) ==
    [kind |-> "path", exists |-> TRUE,
     part |-> Part("application/pdf", TRUE, fname, data, len)]
Files ==
    {MimeFile("f.pdf", "PDF", 2000), MimeFile("s.pdf", "pdf", 400),
     MimeFile("h.pdf", "Pdf", 500), PathFile("p.pdf", "PDF", 2000)}

SeqsUpTo(S, n) == UNION {[1..k -> S] : k \in 0..n}

AttachmentArgs == {None} \cup {List(l) : l \in SeqsUpTo(Files, MaxAttachments)}

CreateArgs ==
    [text : {"body"}, is_html : BOOLEAN, attachments : AttachmentArgs,
     sender : {None, Str("c@d")}]

\* the label lists a header block may carry: no label listed twice
LabelLists ==
    {l \in SeqsUpTo(LabelNames, MaxLabels) :
        \A i, j \in 1..Len(l) : l[i] = l[j] => i = j}

\* the labels of a list inside X-GM-LABELS ( ), a label with a space quoted
RECURSIVE RenderList(_)
RenderList(ls) ==
    IF ls = <<>> THEN <<>>
    ELSE IF Tail(ls) = <<>> THEN Quoted(Head(ls))
    ELSE Quoted(Head(ls)) \o <<" ">> \o RenderList(Tail(ls))

\* a header block listing the labels ls, or without the marker
Block(ls, marker) ==
    [flags |-> <<>>, labelsMarker |-> marker,
     labelsText |-> IF marker THEN RenderList(ls) \o <<")">> ELSE <<>>,
     thrid |-> "", msgid |-> ""]

ParseLabelsArgs ==
    {[labels |-> l, marker |-> TRUE] : l \in LabelLists}
    \cup {[labels |-> <<>>, marker |-> FALSE]}

InitPure ==
    /\ msg = NewMessage(Mailbox("INBOX"), Bytes("5"))
    /\ srv = Server({}, {}, "composed", "[Gmail]/Trash")
    /\ pre = msg
    /\ preSrv = srv
    /\ call = [op |-> "__init__", arg |-> <<>>]
    /\ log = <<>>
    /\ out = "ok"
    /\ ret = None
    /\ pc = "returned"
    /\ calls = 0
    /\ parsed = <<>>
    /\ clean = TRUE
    /\ \/ \E a \in CreateArgs :
             io = [fn |-> "create", arg |-> a, stage |-> "input", res |-> <<>>]
       \/ \E a \in ParseLabelsArgs :
             io = [fn |-> "parse_labels", arg |-> a, stage |-> "input",
                   res |-> <<>>]

\* message = Message.create('hi', 'a@b', text=..., is_html=..., ...)
Create ==
    /\ io.fn = "create"
    /\ io.stage = "input"
    /\ io' = [io EXCEPT !.stage = "composed",
                        !.res = <<create("hi", "a@b", io.arg.text, io.arg.is_html,
                                         io.arg.attachments, io.arg.sender)>>]
    /\ UNCHANGED <<msg, srv, pre, preSrv, call, log, out, ret, pc, calls, parsed,
                   clean>>

\* the composed message is what the server holds for the uid, and
\* m.attachments is read: _fetch and parse run on it
ReparseDone(st) ==
    /\ msg' = st.self
    /\ log' = st.log
    /\ out' = st.err
    /\ ret' = IF Failed(st) THEN None ELSE st.self.attachments
    /\ parsed' = st.parsed
    /\ call' = [op |-> "getattr", arg |-> <<"attachments">>]

Reparse ==
    /\ io.fn = "create"
    /\ io.stage = "composed"
    /\ io.res[1].err = "ok"
    /\ ReparseDone(getattribute(Start(0), "attachments", 1))
    /\ io' = [io EXCEPT !.stage = "reparsed"]
    /\ UNCHANGED <<srv, pre, preSrv, pc, calls, clean>>

\* labels = parse_labels(headers)
ParseLabels ==
    /\ io.fn = "parse_labels"
    /\ io.stage = "input"
    /\ io' = [io EXCEPT !.stage = "done",
                        !.res = parse_labels(Block(io.arg.labels, io.arg.marker))]
    /\ UNCHANGED <<msg, srv, pre, preSrv, call, log, out, ret, pc, calls, parsed,
                   clean>>

NextPure ==
    \/ Create
    \/ Reparse
    \/ ParseLabels

SpecPure == InitPure /\ [][NextPure]_vars

(***************************************************************************)
(* Vocabulary of the properties.                                           *)
(***************************************************************************)
\* how many commands named c the sequence l of commands holds
NumCmd(l, c) == Cardinality({i \in 1..Len(l) : l[i].cmd = c})

\* the last step was the call op, and it has returned or raised
Returned(op) == pc = "returned" /\ call.op = op

\* a Message built on a mailbox, with a uid
WellConstructed(m) == Truthy(m.gmail) /\ Truthy(m.uid)

\* the fields parse assigns
ParsedFields ==
    {"headers", "to", "fr", "subject", "body", "html", "sent_at", "flags",
     "labels", "thread_id", "message_id", "attachments"}

\* the value parse gives field f of a new Message from the response r
Yielded(r, f) ==
    parse([self |-> NewMessage(Mailbox("INBOX"), Bytes("5")), srv |-> srv,
           log |-> <<>>, err |-> "ok", failAt |-> 0, parsed |-> <<>>],
          r, 1).self[f]

\* the last response parsed gave an empty (falsy) value for f
LatestYieldsEmpty(f) == parsed # <<>> /\ ~Truthy(Yielded(parsed[1], f))

\* the flags a local flag list names, whatever the type of its tokens
FlagNames(l) == {l[i].v : i \in 1..Len(l)}
LabelSet(l) == {l[i] : i \in 1..Len(l)}
CountFlag(l, flag) == Cardinality({i \in 1..Len(l) : l[i].v = flag})

SameFlagsLabels == msg.flags = pre.flags /\ msg.labels = pre.labels

\* the STORE of a simple mutation
StoreOf(op, arg) ==
    CASE op = "read" -> Store("+FLAGS", <<Seen>>)
      [] op = "unread" -> Store("-FLAGS", <<Seen>>)
      [] op = "star" -> Store("+FLAGS", <<Flagged>>)
      [] op = "unstar" -> Store("-FLAGS", <<Flagged>>)
      [] op = "add_label" -> Store("+X-GM-LABELS", arg)
      [] op = "remove_label" -> Store("-X-GM-LABELS", arg)

InTrash(m) == m.mailbox.t = "Mailbox" /\ m.mailbox.name \in TrashNames

(***************************************************************************)
(* C1.  A read of a data field whose value is falsy issues exactly one     *)
(* FETCH, a read of a field whose value is truthy issues none, and no      *)
(* single read issues more than one.                                       *)
(***************************************************************************)
C1_OneFetchPerFalsyRead ==
    (Returned("getattr") /\ WellConstructed(pre))
        => NumCmd(log, "FETCH") = (IF Truthy(pre[call.arg[1]]) THEN 0 ELSE 1)

(***************************************************************************)
(* C2 as claimed.  Once a fetch-and-parse has yielded an empty value for a *)
(* field, the field never becomes truthy again: whatever call comes next,  *)
(* a read of the field after it would still fetch.                         *)
(***************************************************************************)
C2_EmptyFieldNeverStopsFetching ==
    [][\A f \in DataFields : LatestYieldsEmpty(f) => ~Truthy(msg'[f])]_vars

(***************************************************************************)
(* C2 amended.  While the last response parsed yields an empty value for a *)
(* field, a read of that field issues another FETCH, on every Message a    *)
(* fetch can be made for (one built on a mailbox, with a truthy uid).      *)
(***************************************************************************)
C2_EmptyFieldRefetches ==
    [][\A f \in DataFields :
          (call'.op = "getattr" /\ call'.arg = <<f>> /\ WellConstructed(msg)
           /\ LatestYieldsEmpty(f))
              => NumCmd(log', "FETCH") >= 1]_vars

\* a loaded message whose labels are empty was read again, and fetched again
C2_Witness ==
    /\ Returned("getattr")
    /\ call.arg = <<"labels">>
    /\ pre.attachments.t = "list"
    /\ pre.labels = List(<<>>)
    /\ NumCmd(log, "FETCH") = 1
    /\ out = "ok"
    /\ LatestYieldsEmpty("labels")

(***************************************************************************)
(* C3.  A read that fetches either ends normally with every parsed field   *)
(* holding the value the response gives it, or fails with every parsed     *)
(* field holding the value it had before the read.                         *)
(***************************************************************************)
C3_FetchAndParseAtomic ==
    (Returned("getattr") /\ NumCmd(log, "FETCH") >= 1)
        => IF out = "ok"
           THEN \A f \in ParsedFields : msg[f] = Yielded(parsed[1], f)
           ELSE \A f \in ParsedFields : msg[f] = pre[f]

(***************************************************************************)
(* C4.  After any sequence of read, unread, star, unstar, add_label and    *)
(* remove_label calls on a new Message, all of them returning normally,    *)
(* the local flags name exactly the server's flags and the local labels    *)
(* are exactly the server's labels.                                        *)
(***************************************************************************)
C4_LocalMatchesServer ==
    (pc = "returned" /\ calls >= 1 /\ clean)
        => /\ FlagNames(msg.flags.v) = srv.flags
           /\ LabelSet(msg.labels.v) = srv.labels

(***************************************************************************)
(* C5.  Each of read, unread, star, unstar, add_label and remove_label     *)
(* issues exactly one remote command, its STORE, and no FETCH, in every    *)
(* state of the Message.                                                   *)
(***************************************************************************)
C5_OneStorePerMutation ==
    (pc = "returned" /\ call.op \in SimpleMutators /\ WellConstructed(pre))
        => log = <<StoreOf(call.op, call.arg)>>

(***************************************************************************)
(* C6 as claimed.  When a remote command of a mutation fails, the local    *)
(* flags and labels are what they were before the call.                    *)
(***************************************************************************)
C6_FailureLeavesLocalState ==
    (pc = "returned" /\ call.op \in Mutators /\ out = "ProtocolError")
        => SameFlagsLabels

\* the STORE +FLAGS \Deleted of the call was issued and answered
DeletedStored ==
    \E i \in 1..(Len(log) - 1) : log[i] = Store("+FLAGS", <<Deleted>>)

(***************************************************************************)
(* C6 amended.  When a remote command of a mutation fails, the local flags *)
(* and labels are what they were before the call, unless the call is a     *)
(* delete, move_to or archive whose STORE +FLAGS \Deleted had succeeded.   *)
(***************************************************************************)
C6_FailureLeavesLocalStateUnlessStored ==
    (pc = "returned" /\ call.op \in Mutators /\ out = "ProtocolError")
        => (SameFlagsLabels \/ (call.op \in MoveMutators /\ DeletedStored))

\* a mutation's STORE went through and the FETCH after it was rejected
C6_Witness ==
    /\ pc = "returned"
    /\ call.op \in SimpleMutators
    /\ out = "ProtocolError"
    /\ Len(log) = 2
    /\ log[2] = Fetch
    /\ SameFlagsLabels

(***************************************************************************)
(* C7.  No sequence of calls makes the local flags name a flag more than   *)
(* once: star() twice, or star() on a Message whose server copy is already *)
(* flagged, leaves flagged in the local flags exactly once.                *)
(***************************************************************************)
C7_NoFlagTwice ==
    /\ \A flag \in Flags : CountFlag(msg.flags.v, flag) <= 1
    /\ (Returned("star") /\ out = "ok") => CountFlag(msg.flags.v, Flagged) = 1

(***************************************************************************)
(* C8.  unstar() on a Message whose local flags do not name the flagged    *)
(* flag leaves the local flags as they were, empty local flags included.   *)
(***************************************************************************)
C8_UnstarUnstarredKeepsFlags ==
    (Returned("unstar") /\ Flagged \notin FlagNames(pre.flags.v))
        => msg.flags = pre.flags

(***************************************************************************)
(* C9.  delete() on a Message whose mailbox is '[Gmail]/Trash' or          *)
(* '[Gmail]/Bin' issues the STORE +FLAGS \Deleted first and never a COPY,  *)
(* and when it returns the local flags hold the deleted flag.              *)
(***************************************************************************)
C9_DeleteInTrashDoesNotMove ==
    (Returned("delete") /\ InTrash(pre) /\ WellConstructed(pre))
        => /\ log # <<>>
           /\ log[1] = Store("+FLAGS", <<Deleted>>)
           /\ NumCmd(log, "COPY") = 0
           /\ NumCmd(log, "STORE") = 1
           /\ out = "ok" => In(Str(Deleted), msg.flags.v)

\* a message in the trash was deleted
C9_Witness ==
    /\ Returned("delete")
    /\ InTrash(pre)
    /\ out = "ok"
    /\ log[1] = Store("+FLAGS", <<Deleted>>)
    /\ In(Str(Deleted), msg.flags.v)
    /\ ~In(Str(Deleted), pre.flags.v)

(***************************************************************************)
(* C10 as claimed.  has_label(l) is true exactly when l is among the       *)
(* labels parse_labels gives for the header block of the Message's FETCH   *)
(* response, in every state, after add_label and remove_label too.         *)
(***************************************************************************)
C10_HasLabelIsParsedMembership ==
    (Returned("has_label") /\ out = "ok" /\ parsed # <<>>)
        => ret = Bool(In(call.arg, parse_labels(parsed[1].headers)))

(***************************************************************************)
(* C10 amended.  has_label(l) is true exactly when l is in the local       *)
(* labels; when the call itself fetched, these are the labels parse_labels *)
(* gives for the header block of the response.                             *)
(***************************************************************************)
C10_HasLabelIsLocalMembership ==
    (Returned("has_label") /\ out = "ok")
        => /\ ret = Bool(In(call.arg, msg.labels.v))
           /\ NumCmd(log, "FETCH") >= 1
                  => /\ parsed # <<>>
                     /\ msg.labels.v = parse_labels(parsed[1].headers)

\* has_label on a message not loaded yet found the label the server holds
C10_Witness ==
    /\ Returned("has_label")
    /\ out = "ok"
    /\ pre.labels = List(<<>>)
    /\ NumCmd(log, "FETCH") = 1
    /\ ret = Bool(TRUE)
    /\ In(call.arg, parse_labels(parsed[1].headers))

(***************************************************************************)
(* C11.  add_label(l) with l in the local labels leaves them unchanged,    *)
(* with l in them once; remove_label(l) with l not in the local labels     *)
(* leaves them unchanged; either call issues one STORE.                    *)
(***************************************************************************)
CountLabel(l, label) == Cardinality({i \in 1..Len(l) : l[i] = label})

C11_LabelMutationsIdempotent ==
    /\ (Returned("add_label") /\ out = "ok" /\ In(call.arg, pre.labels.v))
           => /\ msg.labels = pre.labels
              /\ CountLabel(msg.labels.v, call.arg) = 1
              /\ NumCmd(log, "STORE") = 1
    /\ (Returned("remove_label") /\ out = "ok" /\ ~In(call.arg, pre.labels.v))
           => /\ msg.labels = pre.labels
              /\ NumCmd(log, "STORE") = 1

(***************************************************************************)
(* C12.  is_read, is_starred, is_draft and is_deleted on a Message whose   *)
(* local flags are non-empty, and has_label on one whose local labels are  *)
(* non-empty, return the membership of the token in the local list, issue  *)
(* no remote command and leave every field of the Message as it was.       *)
(***************************************************************************)
FlagPredicates == {"is_read", "is_starred", "is_draft", "is_deleted"}

FlagOf(op) ==
    CASE op = "is_read" -> Seen
      [] op = "is_starred" -> Flagged
      [] op = "is_draft" -> Draft
      [] op = "is_deleted" -> Deleted

C12_PredicatesArePure ==
    /\ (pc = "returned" /\ call.op \in FlagPredicates /\ Truthy(pre.flags))
           => /\ out = "ok"
              /\ ret = Bool(In(Str(FlagOf(call.op)), pre.flags.v))
              /\ log = <<>>
              /\ msg = pre
    /\ (Returned("has_label") /\ Truthy(pre.labels))
           => /\ out = "ok"
              /\ ret = Bool(In(call.arg, pre.labels.v))
              /\ log = <<>>
              /\ msg = pre

(***************************************************************************)
(* C13.  Composing a message with a list of attachments succeeds, and      *)
(* parsing the composed message gives one attachment per composed one, in  *)
(* the same order, with its name and its payload bytes.                    *)
(***************************************************************************)
ComposedFiles == IF Truthy(io.arg.attachments) THEN io.arg.attachments.v ELSE <<>>

C13_AttachmentsRoundTrip ==
    (io.fn = "create" /\ io.stage # "input")
        => /\ io.res[1].err = "ok"
           /\ io.stage = "reparsed"
                  => /\ out = "ok"
                     /\ Len(msg.attachments.v) = Len(ComposedFiles)
                     /\ \A i \in 1..Len(ComposedFiles) :
                           /\ msg.attachments.v[i].name = ComposedFiles[i].part.fname
                           /\ msg.attachments.v[i].payload
                                  = Bytes(ComposedFiles[i].part.data)

(***************************************************************************)
(* C14.  parse_labels on a header block with the X-GM-LABELS marker gives  *)
(* exactly the labels the marker lists, each one once; on a block without  *)
(* the marker it gives the empty list.                                     *)
(***************************************************************************)
C14_ParseLabelsExact ==
    (io.fn = "parse_labels" /\ io.stage = "done")
        => IF io.arg.marker
           THEN /\ LabelSet(io.res) = LabelSet(io.arg.labels)
                /\ \A i, j \in 1..Len(io.res) : io.res[i] = io.res[j] => i = j
           ELSE io.res = <<>>

(***************************************************************************)
(* C15.  Message.create gives a multipart message exactly when is_html is  *)
(* true or at least one attachment is given: with is_html false and the    *)
(* attachments omitted or an empty list it gives a single text part.       *)
(***************************************************************************)
C15_PlainUnlessHtmlOrAttachments ==
    (io.fn = "create" /\ io.stage # "input" /\ io.res[1].err = "ok")
        => (io.res[1].v.maintype = "multipart"
                <=> (io.arg.is_html \/ Truthy(io.arg.attachments)))

(***************************************************************************)
(* C16.  move_to(name) with name not a trash folder (and archive()) issues *)
(* the COPY to name first and the STORE +FLAGS \Deleted second; as long as *)
(* the COPY has not succeeded the server's flags and the local flags are   *)
(* what they were; after a later failure the copy in name exists.          *)
(***************************************************************************)
IsMoveOut ==
    pc = "returned"
    /\ \/ call.op = "archive"
       \/ call.op = "move_to" /\ call.arg[1] \notin TrashNames

MoveTarget == IF call.op = "archive" THEN "[Gmail]/All Mail" ELSE call.arg[1]

\* the commands of the last call the Mail Session carried out
Succeeded ==
    IF out = "ProtocolError" THEN SubSeq(log, 1, Len(log) - 1) ELSE log

C16_MoveCopiesBeforeDelete ==
    IsMoveOut
        => /\ log # <<>> => log[1] = Copy(MoveTarget, pre.mailbox.name)
           /\ \A i \in 1..Len(log) :
                 log[i] = Store("+FLAGS", <<Deleted>>) => i = 2
           /\ Succeeded = <<>> => (srv.flags = preSrv.flags /\ msg.flags = pre.flags)
           /\ Succeeded # <<>> => Succeeded[1] = Copy(MoveTarget, pre.mailbox.name)
           /\ out = "ok" => /\ Len(log) >= 2
                            /\ log[2] = Store("+FLAGS", <<Deleted>>)

\* the copy was made, the STORE after it was rejected
C16_Witness ==
    /\ IsMoveOut
    /\ call.op = "move_to"
    /\ out = "ProtocolError"
    /\ Len(log) = 2
    /\ log[1] = Copy("Work", "INBOX")
    /\ log[2] = Store("+FLAGS", <<Deleted>>)
    /\ msg.flags = pre.flags
    /\ srv.flags = preSrv.flags

(***************************************************************************)
(* C17.  delete() on a Message whose mailbox is not a trash folder issues  *)
(* one COPY, after the STORE +FLAGS \Deleted, to '[Gmail]/Trash' when the  *)
(* account lists that mailbox and to '[Gmail]/Bin' otherwise.              *)
(***************************************************************************)
C17_DeleteCopiesToTrash ==
    (Returned("delete") /\ pre.mailbox.t = "Mailbox" /\ ~InTrash(pre))
        => /\ NumCmd(log, "COPY") <= 1
           /\ out = "ok" => NumCmd(log, "COPY") = 1
           /\ \A i \in 1..Len(log) :
                 log[i].cmd = "COPY"
                     => /\ log[i].op = (IF "[Gmail]/Trash" \in preSrv.boxes
                                        THEN "[Gmail]/Trash" ELSE "[Gmail]/Bin")
                        /\ log[i].op \in TrashNames
                        /\ i > 1
                        /\ log[1] = Store("+FLAGS", <<Deleted>>)

\* a message of an account whose trash is '[Gmail]/Bin' was deleted
C17_Witness ==
    /\ Returned("delete")
    /\ out = "ok"
    /\ pre.mailbox = Mailbox("INBOX")
    /\ "[Gmail]/Trash" \notin preSrv.boxes
    /\ log[1] = Store("+FLAGS", <<Deleted>>)
    /\ log[Len(log)] = Copy("[Gmail]/Bin", "INBOX")

(***************************************************************************)
(* C18.  A call of delete(), move_to(name) or archive() ends after at most *)
(* two COPY commands and at most one STORE +FLAGS \Deleted, and the chain  *)
(* of calls between delete and move_to never exhausts the stack.           *)
(***************************************************************************)
NumStoreDeleted ==
    Cardinality({i \in 1..Len(log) : log[i] = Store("+FLAGS", <<Deleted>>)})

C18_DeleteMoveRecursionEnds ==
    (pc = "returned" /\ call.op \in MoveMutators)
        => /\ NumCmd(log, "COPY") <= 2
           /\ NumStoreDeleted <= 1
           /\ (WellConstructed(pre) /\ preSrv.raw # "nohdr")
                  => out # "RecursionError"

\* the deepest chain: move_to -> delete -> move_to(trash)
C18_Witness ==
    /\ pc = "returned"
    /\ call.op \in {"move_to", "archive"}
    /\ out = "ok"
    /\ NumCmd(log, "COPY") = 2
    /\ NumStoreDeleted = 1

(***************************************************************************)
(* C19.  Every read of an attribute of a Message ends without the fetch    *)
(* path re-entering the lazy read until the stack is exhausted, also on a  *)
(* Message built without a mailbox, with a falsy uid, or whose raw message *)
(* has no headers.                                                         *)
(***************************************************************************)
C19_ReadsEnd == Returned("getattr") => out # "RecursionError"

(***************************************************************************)
(* C20.  No operation changes the uid or the mailbox of a Message.         *)
(***************************************************************************)
C20_UidMailboxImmutable ==
    [][msg'.uid = msg.uid /\ msg'.mailbox = msg.mailbox]_vars

\* a message moved out of INBOX still refers to INBOX and to its uid
C20_Witness ==
    /\ Returned("move_to")
    /\ call.arg = <<"Work">>
    /\ out = "ok"
    /\ NumCmd(log, "COPY") = 2
    /\ msg.mailbox = Mailbox("INBOX")
    /\ msg.uid = Bytes("5")

====
